---- MODULE Spec2Model ----
(***************************************************************************)
(* A model of fuzzygrep (src/fuzzygrep.py): the FuzzyJSONSearcher index    *)
(* (flattener, reverse indexer, key filter, path resolver) and the REPL    *)
(* session of main() that loads documents, sets filters, toggles the       *)
(* search mode, searches and completes.                                    *)
(*                                                                         *)
(* Strings are sequences of one-character strings, so that substring       *)
(* containment, str.split, str.strip and the code-point order of sorted()  *)
(* are computed as Python computes them.                                   *)
(***************************************************************************)
EXTENDS Integers, Sequences, FiniteSets, TLC

VARIABLES pc, searcher, current_completion_type, last, unfiltered,
          fuzzy_completer, ranked

vars == <<pc, searcher, current_completion_type, last, unfiltered,
          fuzzy_completer, ranked>>

----------------------------------------------------------------------------
(* Bounds of the model.                                                    *)

\* Nesting depth of the generated JSON documents.
MaxDepth == 2

\* Length of the generated arguments of the /only command.
MaxArgLen == 2

\* The scores a scorer gives to the candidates repeat with at most this
\* period along the candidate list.
MaxPeriod == 2

----------------------------------------------------------------------------
(* Strings.                                                                *)

\* The characters the model's strings are made of, in code-point order.
Chars ==
    << " ", ",", ".", "/", "0", "1", "2", "3", "4", "5", "6", "7", "8", "9",
       "A", "F", "N", "T",
       "a", "b", "c", "d", "e", "g", "i", "l", "m", "n", "o", "p", "r",
       "s", "t", "u", "v", "x", "y" >>

CharSet == {Chars[i] : i \in DOMAIN Chars}

\* The rank of a character: Python compares strings by code point.
Ord == [c \in CharSet |-> CHOOSE i \in DOMAIN Chars : Chars[i] = c]

RECURSIVE StrLess(_, _)
\* a < b on Python strings.
StrLess(a, b) ==
    IF a = <<>> THEN b # <<>>
    ELSE IF b = <<>> THEN FALSE
    ELSE IF a[1] = b[1] THEN StrLess(Tail(a), Tail(b))
    ELSE Ord[a[1]] < Ord[b[1]]

ToSet(seq) == {seq[i] : i \in DOMAIN seq}

RECURSIVE Sorted(_)
\* sorted(list(S)) for a set S of strings.
Sorted(S) ==
    IF S = {} THEN <<>>
    ELSE LET m == CHOOSE x \in S : \A y \in S : x = y \/ StrLess(x, y)
         IN  <<m>> \o Sorted(S \ {m})

RECURSIVE Flat(_)
\* The concatenation of a sequence of sequences (list.extend in a loop).
Flat(ss) == IF ss = <<>> THEN <<>> ELSE Head(ss) \o Flat(Tail(ss))

\* Python's `pattern in key` on strings: unanchored, case-sensitive containment.
Contains(pattern, key) ==
    \E i \in 0 .. (Len(key) - Len(pattern)) :
        SubSeq(key, i + 1, i + Len(pattern)) = pattern

\* The index of the first occurrence of character c in s, 0 when there is none.
Find(s, c) ==
    IF \E i \in DOMAIN s : s[i] = c
    THEN CHOOSE i \in DOMAIN s : s[i] = c /\ \A j \in 1 .. (i - 1) : s[j] # c
    ELSE 0

RECURSIVE Split(_, _)
\* s.split(c): always at least one piece, empty pieces kept.
Split(s, c) ==
    LET i == Find(s, c)
    IN  IF i = 0 THEN <<s>>
        ELSE <<SubSeq(s, 1, i - 1)>> \o Split(SubSeq(s, i + 1, Len(s)), c)

RECURSIVE LStrip(_)
LStrip(s) == IF s # <<>> /\ Head(s) = " " THEN LStrip(Tail(s)) ELSE s

RECURSIVE RStrip(_)
RStrip(s) ==
    IF s # <<>> /\ s[Len(s)] = " " THEN RStrip(SubSeq(s, 1, Len(s) - 1)) ELSE s

\* s.strip()
Strip(s) == RStrip(LStrip(s))

\* s.split(maxsplit=1): split once on a run of whitespace, leading whitespace
\* dropped, the remainder kept with its trailing whitespace.
SplitWs1(s) ==
    LET t == LStrip(s)
        i == Find(t, " ")
        rest == IF i = 0 THEN <<>> ELSE LStrip(SubSeq(t, i + 1, Len(t)))
    IN  IF t = <<>> THEN <<>>
        ELSE IF rest = <<>> THEN <<RStrip(t)>>
        ELSE <<SubSeq(t, 1, i - 1), rest>>

----------------------------------------------------------------------------
(* Documents: what json.load and csv.DictReader return.                    *)

\* Every value is a record of one shape; t tells the Python type.
Null == [t |-> "null", n |-> 0, s |-> <<>>, keys |-> <<>>, items |-> <<>>]
Bool(b) ==
    [t |-> IF b THEN "true" ELSE "false", n |-> 0, s |-> <<>>, keys |-> <<>>,
     items |-> <<>>]
Num(n) == [t |-> "num", n |-> n, s |-> <<>>, keys |-> <<>>, items |-> <<>>]
StrV(s) == [t |-> "str", n |-> 0, s |-> s, keys |-> <<>>, items |-> <<>>]
\* A dict: keys[i] maps to items[i], in insertion order, the keys distinct.
Map(keys, items) ==
    [t |-> "map", n |-> 0, s |-> <<>>, keys |-> keys, items |-> items]
List(items) ==
    [t |-> "list", n |-> 0, s |-> <<>>, keys |-> <<>>, items |-> items]

\* isinstance(v, dict), isinstance(v, list), isinstance(v, (dict, list))
IsDict(v) == v.t = "map"
IsList(v) == v.t = "list"
IsContainer(v) == IsDict(v) \/ IsList(v)

\* bool(v): None, False, 0, "", {} and [] are falsy.
Truthy(v) ==
    CASE v.t = "null" -> FALSE
      [] v.t = "false" -> FALSE
      [] v.t = "true" -> TRUE
      [] v.t = "num" -> v.n # 0
      [] v.t = "str" -> v.s # <<>>
      [] v.t = "map" -> v.keys # <<>>
      [] v.t = "list" -> v.items # <<>>

Digit == <<"0", "1", "2", "3", "4", "5", "6", "7", "8", "9">>

RECURSIVE Decimal(_)
\* str(n) for a non-negative int.
Decimal(n) ==
    IF n < 10 THEN <<Digit[n + 1]>>
    ELSE Decimal(n \div 10) \o <<Digit[(n % 10) + 1]>>

\* str(v) of a scalar: the type is lost (1 and "1" both give "1").
Str(v) ==
    CASE v.t = "null" -> <<"N", "o", "n", "e">>
      [] v.t = "true" -> <<"T", "r", "u", "e">>
      [] v.t = "false" -> <<"F", "a", "l", "s", "e">>
      [] v.t = "num" -> Decimal(v.n)
      [] v.t = "str" -> v.s

\* value[key] on a dict whose keys include key.
Lookup(d, key) == d.items[CHOOSE i \in DOMAIN d.keys : d.keys[i] = key]

\* f"{prefix}.{k}" if prefix else k
FullKey(prefix, k) == IF prefix # <<>> THEN prefix \o <<".">> \o k ELSE k

----------------------------------------------------------------------------
(* FuzzyJSONSearcher: the pure methods.                                    *)

RECURSIVE _extract_json_keys(_, _)
\* Every key of a nested document as a dot path, in traversal order, with
\* duplicates; list elements do not extend the path.
_extract_json_keys(data, prefix) ==
    IF IsDict(data)
    THEN Flat([i \in DOMAIN data.keys |->
                 LET full_key == FullKey(prefix, data.keys[i])
                 IN  <<full_key>> \o _extract_json_keys(data.items[i], full_key)])
    ELSE IF IsList(data)
    THEN Flat([i \in DOMAIN data.items |->
                 _extract_json_keys(data.items[i], prefix)])
    ELSE <<>>

RECURSIVE _extract_json_values(_)
\* str(v) of every dict value v that is no container; a list is recursed
\* into, and an element of a list that is no container yields nothing.
_extract_json_values(data) ==
    IF IsDict(data)
    THEN Flat([i \in DOMAIN data.keys |->
                 IF IsContainer(data.items[i])
                 THEN _extract_json_values(data.items[i])
                 ELSE <<Str(data.items[i])>>])
    ELSE IF IsList(data)
    THEN Flat([i \in DOMAIN data.items |-> _extract_json_values(data.items[i])])
    ELSE <<>>

RECURSIVE WalkKeys(_, _)
\* The for loop of _get_values_by_path: one dict lookup per segment; a
\* missing key, a list or a scalar met on the way ends it with [].
WalkKeys(value, keys) ==
    IF keys = <<>> THEN <<value>>
    ELSE IF IsDict(value)
    THEN IF Head(keys) \in ToSet(value.keys)
         THEN WalkKeys(Lookup(value, Head(keys)), Tail(keys))
         ELSE <<>>
    ELSE <<>>

RECURSIVE _get_values_by_path(_, _)
\* A list at the root is mapped over; otherwise the path is split on "." and
\* walked from the root.
_get_values_by_path(data, path) ==
    IF IsList(data)
    THEN Flat([i \in DOMAIN data.items |->
                 _get_values_by_path(data.items[i], path)])
    ELSE WalkKeys(data, Split(path, "."))

\* value_to_keys[val].update(keys) for every val of m2, on dicts of sets.
UpdateAll(m1, m2) ==
    [val \in DOMAIN m1 \cup DOMAIN m2 |->
        (IF val \in DOMAIN m1 THEN m1[val] ELSE {}) \cup
        (IF val \in DOMAIN m2 THEN m2[val] ELSE {})]

RECURSIVE MergeAll(_)
MergeAll(ms) ==
    IF ms = <<>> THEN [val \in {} |-> {}]
    ELSE UpdateAll(Head(ms), MergeAll(Tail(ms)))

\* A dict of sorted lists as a dict of sets.
AsSets(m) == [val \in DOMAIN m |-> ToSet(m[val])]

RECURSIVE _build_value_to_key_map(_, _)
\* str(v) of every dict value v that is no container, mapped to the sorted
\* list of the dot paths it sits under.
_build_value_to_key_map(data, prefix) ==
    LET value_to_keys ==
            IF IsDict(data)
            THEN MergeAll([i \in DOMAIN data.keys |->
                    LET full_key == FullKey(prefix, data.keys[i])
                        v == data.items[i]
                    IN  IF IsContainer(v)
                        THEN AsSets(_build_value_to_key_map(v, full_key))
                        ELSE [val \in {Str(v)} |-> {full_key}]])
            ELSE IF IsList(data)
            THEN MergeAll([i \in DOMAIN data.items |->
                    AsSets(_build_value_to_key_map(data.items[i], prefix))])
            ELSE [val \in {} |-> {}]
    IN  [val \in DOMAIN value_to_keys |-> Sorted(value_to_keys[val])]

\* [k for k in keys if k in unique_keys]
KeepIn(keys, unique_keys) ==
    LET Keep(k) == k \in ToSet(unique_keys) IN SelectSeq(keys, Keep)

\* FilteredKeys with str.startswith in place of `in`.
FilteredKeys_startswith(all_keys, patterns) ==
    LET Match(key) ==
            \E i \in DOMAIN patterns :
                /\ Len(patterns[i]) <= Len(key)
                /\ SubSeq(key, 1, Len(patterns[i])) = patterns[i]
    IN  SelectSeq(all_keys, Match)

\* The keys of _all_keys that contain some pattern (lines 84-89).
FilteredKeys(all_keys, patterns) ==
    LET Match(key) == \E i \in DOMAIN patterns : Contains(patterns[i], key)
    IN  SelectSeq(all_keys, Match)

\* _apply_key_filter that keeps the filtered keys as the new _all_keys.
_apply_key_filter_narrows_all_keys(self) ==
    IF self._allowed_keys_filter = <<>>
    THEN [self EXCEPT
            !.unique_keys = Sorted(ToSet(self._all_keys)),
            !.unique_values = Sorted(ToSet(self._all_values)),
            !.value_to_keys_map = _build_value_to_key_map(self.data, <<>>)]
    ELSE LET filtered_keys ==
                 FilteredKeys(self._all_keys, self._allowed_keys_filter)
             unique_keys == Sorted(ToSet(filtered_keys))
             full == _build_value_to_key_map(self.data, <<>>)
             kept == {val \in DOMAIN full : KeepIn(full[val], unique_keys) # <<>>}
         IN  [self EXCEPT
                !._all_keys = filtered_keys,
                !.unique_keys = unique_keys,
                !.value_to_keys_map = [val \in kept |-> KeepIn(full[val], unique_keys)],
                !.unique_values = Sorted(kept)]

\* _apply_key_filter that filters the keys and leaves the map whole.
_apply_key_filter_keeps_map(self) ==
    LET full == _build_value_to_key_map(self.data, <<>>)
    IN  IF self._allowed_keys_filter = <<>>
        THEN [self EXCEPT
                !.unique_keys = Sorted(ToSet(self._all_keys)),
                !.unique_values = Sorted(ToSet(self._all_values)),
                !.value_to_keys_map = full]
        ELSE [self EXCEPT
                !.unique_keys =
                    Sorted(ToSet(FilteredKeys(self._all_keys,
                                              self._allowed_keys_filter))),
                !.value_to_keys_map = full,
                !.unique_values = Sorted(DOMAIN full)]

\* _apply_key_filter on the searcher self: it reads data, _all_keys,
\* _all_values and _allowed_keys_filter, and sets the three derived fields.
_apply_key_filter(self) ==
    IF self._allowed_keys_filter = <<>>
    THEN [self EXCEPT
            !.unique_keys = Sorted(ToSet(self._all_keys)),
            !.unique_values = Sorted(ToSet(self._all_values)),
            !.value_to_keys_map = _build_value_to_key_map(self.data, <<>>)]
    ELSE LET unique_keys ==
                 Sorted(ToSet(FilteredKeys(self._all_keys,
                                           self._allowed_keys_filter)))
             full == _build_value_to_key_map(self.data, <<>>)
             kept == {val \in DOMAIN full : KeepIn(full[val], unique_keys) # <<>>}
             filtered_value_to_keys_map ==
                 [val \in kept |-> KeepIn(full[val], unique_keys)]
         IN  [self EXCEPT
                !.unique_keys = unique_keys,
                !.value_to_keys_map = filtered_value_to_keys_map,
                !.unique_values = Sorted(kept)]

----------------------------------------------------------------------------
(* The files a session can name.                                           *)

\* A file: ext is Path.suffix.lower() without the dot, exists whether open()
\* finds it, parses whether json.load / csv.DictReader accept it, content
\* what they return.
File(ext, exists, parses, content) ==
    [ext |-> ext, exists |-> exists, parses |-> parses, content |-> content]

\* list(csv.DictReader(f)): one dict per row under the header's field names,
\* a short row filled with None (restval). Rows are no longer than the header.
CsvRecords(header, rows) ==
    List([i \in DOMAIN rows |->
            Map(header,
                [j \in DOMAIN header |->
                    IF j <= Len(rows[i]) THEN StrV(rows[i][j]) ELSE Null])])

GenScalars == {Num(1), Null}
GenKeys == {<<"a">>}

RECURSIVE GenDocs(_)
\* Every JSON value nested at most d deep whose containers hold at most one
\* element, over GenKeys and GenScalars.
GenDocs(d) ==
    IF d = 0 THEN GenScalars
    ELSE LET below == GenDocs(d - 1)
         IN  below \cup {List(<<>>), Map(<<>>, <<>>)}
                   \cup {List(<<x>>) : x \in below}
                   \cup {Map(<<k>>, <<x>>) : k \in GenKeys, x \in below}

s_user == <<"u", "s", "e", "r">>
s_name == <<"n", "a", "m", "e">>
s_tags == <<"t", "a", "g", "s">>
s_Alice == <<"A", "l", "i", "c", "e">>
s_admin == <<"a", "d", "m", "i", "n">>
s_vip == <<"v", "i", "p">>
s_user_name == s_user \o <<".">> \o s_name
s_user_tags == s_user \o <<".">> \o s_tags

\* {"user": {"name": "Alice", "tags": ["admin", "vip"]}}
ScenarioDoc ==
    Map(<<s_user>>,
        <<Map(<<s_name, s_tags>>,
              <<StrV(s_Alice), List(<<StrV(s_admin), StrV(s_vip)>>)>>)>>)

\* {"a": [{"b": 1}, {"b": 2}]}
ListOfMapsDoc ==
    Map(<<<<"a">>>>,
        <<List(<<Map(<<<<"b">>>>, <<Num(1)>>), Map(<<<<"b">>>>, <<Num(2)>>)>>)>>)

\* {"a.b": 1, "a": {"b": 2}}
DottedKeyDoc ==
    Map(<<<<"a", ".", "b">>, <<"a">>>>, <<Num(1), Map(<<<<"b">>>>, <<Num(2)>>)>>)

\* [{"a": {"b": 1}}, {"a": 2}]
RootListDoc ==
    List(<<Map(<<<<"a">>>>, <<Map(<<<<"b">>>>, <<Num(1)>>)>>),
           Map(<<<<"a">>>>, <<Num(2)>>)>>)

\* {"a": 1, "b": "1", "c": [1, null]}
LossyDoc ==
    Map(<<<<"a">>, <<"b">>, <<"c">>>>,
        <<Num(1), StrV(<<"1">>), List(<<Num(1), Null>>)>>)

\* {"a": true, "ab": 10, "b": {"a": false}}
BoolDoc ==
    Map(<<<<"a">>, <<"a", "b">>, <<"b">>>>,
        <<Bool(TRUE), Num(10), Map(<<<<"a">>>>, <<Bool(FALSE)>>)>>)

\* {"a": 1, "b": 2, "c": 3, ..., "p": 12}: more keys and more values than
\* a search or a completion returns.
WideDoc ==
    Map(<< <<"a">>, <<"b">>, <<"c">>, <<"d">>, <<"e">>, <<"g">>,
           <<"i">>, <<"l">>, <<"m">>, <<"n">>, <<"o">>, <<"p">> >>,
        [i \in 1..12 |-> Num(i)])

CuratedDocs ==
    { ScenarioDoc, ListOfMapsDoc, DottedKeyDoc, RootListDoc,
      LossyDoc, BoolDoc, WideDoc, Num(0), Num(5), StrV(<<>>), StrV(<<"x">>),
      Bool(FALSE) }

JsonDocs == GenDocs(MaxDepth) \cup CuratedDocs

\* a,b / 1,2 / 3
ShortRowCsv == CsvRecords(<<<<"a">>, <<"b">>>>, << <<<<"1">>, <<"2">>>>, <<<<"3">>>> >>)

\* name,tags / Alice,admin / Alice,vip
NamesCsv ==
    CsvRecords(<<s_name, s_tags>>, << <<s_Alice, s_admin>>, <<s_Alice, s_vip>> >>)

\* a,ab / 1,1
SameValueCsv == CsvRecords(<<<<"a">>, <<"a", "b">>>>, << <<<<"1">>, <<"1">>>> >>)

\* A header and no row, or nothing at all: list(reader) is [].
NoRowCsv == CsvRecords(<<<<"a">>>>, <<>>)

CsvDocs == {ShortRowCsv, NamesCsv, SameValueCsv, NoRowCsv}

Files ==
    {File("json", TRUE, TRUE, d) : d \in JsonDocs}
      \cup {File("csv", TRUE, TRUE, d) : d \in CsvDocs}
      \cup { File("json", FALSE, FALSE, Null),      \* no such file
             File("csv", FALSE, FALSE, Null),
             File("json", TRUE, FALSE, Null),      \* not JSON
             File("csv", TRUE, FALSE, Null),       \* the reader raises
             File("txt", TRUE, TRUE, Map(<<<<"a">>>>, <<Num(1)>>)) }

----------------------------------------------------------------------------
(* FuzzyJSONSearcher: construction.                                        *)

\* _load_json: None when the file is missing or is not JSON.
_load_json(f) == IF f.exists /\ f.parses THEN f.content ELSE Null

\* _load_csv: None when the file is missing or the reader raises.
_load_csv(f) == IF f.exists /\ f.parses THEN f.content ELSE Null

\* The searcher after lines 58-61 of __init__. ext is file_path.suffix.lower();
\* has_all_keys tells whether the attributes _all_keys and _all_values exist
\* on the object.
NewSearcher(f) ==
    [ ext |-> f.ext,
      data |-> Null,
      has_all_keys |-> FALSE,
      _all_keys |-> <<>>,
      _all_values |-> <<>>,
      _allowed_keys_filter |-> <<>>,
      unique_keys |-> <<>>,
      unique_values |-> <<>>,
      value_to_keys_map |-> [val \in {} |-> <<>>] ]

\* _load_data up to its last line: data is read by extension, and _all_keys
\* and _all_values are assigned only when data is truthy.
LoadedFields(self, f) ==
    IF f.ext = "json"
    THEN LET data == _load_json(f)
         IN  IF Truthy(data)
             THEN [self EXCEPT !.data = data,
                               !.has_all_keys = TRUE,
                               !._all_keys = _extract_json_keys(data, <<>>),
                               !._all_values = _extract_json_values(data)]
             ELSE [self EXCEPT !.data = data]
    ELSE IF f.ext = "csv"
    THEN LET data == _load_csv(f)
         IN  IF Truthy(data)
             THEN [self EXCEPT !.data = data,
                               !.has_all_keys = TRUE,
                               !._all_keys = data.items[1].keys,
                               !._all_values = <<>>]
             ELSE [self EXCEPT !.data = data]
    ELSE self

\* _apply_key_filter reads self._all_keys first: AttributeError when
\* _load_data never assigned it.
RaisesAttributeError(self) == ~self.has_all_keys

\* _load_data: [raised, self]; when raised, the exception leaves __init__.
_load_data(self, f) ==
    LET loaded == LoadedFields(self, f)
    IN  IF RaisesAttributeError(loaded)
        THEN [raised |-> TRUE, self |-> loaded]
        ELSE [raised |-> FALSE, self |-> _apply_key_filter(loaded)]

\* FuzzyJSONSearcher(file_path)
Construct(f) == _load_data(NewSearcher(f), f)

----------------------------------------------------------------------------
(* The session of main(): one command or search per step.                  *)

ArgChars == {"a", ","}

RECURSIVE Args(_)
\* The strings over ArgChars of length at most n.
Args(n) ==
    IF n = 0 THEN {<<>>}
    ELSE LET shorter == Args(n - 1)
         IN  shorter \cup {<<c>> \o a : c \in ArgChars, a \in shorter}

s_only == <<"/", "o", "n", "l", "y">>

\* The lines a user types that start with /only.
OnlyQueries ==
    {s_only}
      \cup {s_only \o <<" ">> \o a : a \in Args(MaxArgLen)}
      \cup { s_only \o <<" ", " ">>,
             s_only \o <<" ">> \o s_tags,
             s_only \o <<" ", "b">>,
             s_only \o <<" ", " ", "a", " ", ",", " ", "b", " ">>,
             s_only \o <<" ", ".">>,
             s_only \o <<" ", "a", ".", "b">>,
             s_only \o <<"x", " ", "a">> }

\* [k.strip() for k in filter_keys_str.split(',')]
ParsePatterns(filter_keys_str) ==
    LET pieces == Split(filter_keys_str, ",")
    IN  [i \in DOMAIN pieces |-> Strip(pieces[i])]

\* The /only branch of the dispatcher: the filter the query sets, [] to clear.
OnlyFilter(query) ==
    LET parts == SplitWs1(query)
    IN  IF Len(parts) > 1
        THEN LET filter_keys_str == Strip(parts[2])
             IN  IF filter_keys_str # <<>>
                 THEN ParsePatterns(filter_keys_str)
                 ELSE <<>>
        ELSE <<>>

\* What the last step was, for the properties: the command, the file of a
\* load, whether a filter had narrowed the caches before an /only, and the
\* match a search displayed with its values or its keys.
Last(cmd, file, was_narrowed, match, values, keys) ==
    [cmd |-> cmd, file |-> file, was_narrowed |-> was_narrowed, match |-> match,
     values |-> values, keys |-> keys]

NoFile == File("", FALSE, FALSE, Null)

\* Before main() has built a searcher there is none.
NoSearcher == NewSearcher(NoFile)

\* The derived caches of a searcher.
Derived(self) ==
    [unique_keys |-> self.unique_keys,
     unique_values |-> self.unique_values,
     value_to_keys_map |-> self.value_to_keys_map]

\* FuzzyCompleter(searcher, completion_type): its searcher is a reference
\* to the session's searcher object (/load re-points it in the same step
\* that replaces the searcher), so only its completion_type is state of
\* its own.
NoCompleter == [completion_type |-> "keys"]

\* What the last search or completion returned, for the properties: the
\* query, the score the scorer gave to each candidate, and the matches
\* (candidate, score) in the order returned.
Ranked(by, query, scores, matches) ==
    [by |-> by, query |-> query, scores |-> scores, matches |-> matches]

NoRanked == Ranked("none", <<>>, <<>>, <<>>)

Init ==
    /\ pc = "start"
    /\ searcher = NoSearcher
    /\ current_completion_type = "keys"
    /\ last = Last("none", NoFile, FALSE, <<>>, <<>>, <<>>)
    /\ unfiltered = Derived(NoSearcher)
    /\ fuzzy_completer = NoCompleter
    /\ ranked = NoRanked

\* The process has ended, by an uncaught exception or by leaving the loop:
\* its objects are gone.
Ended(how) ==
    /\ pc' = how
    /\ searcher' = NoSearcher
    /\ unfiltered' = Derived(NoSearcher)
    /\ current_completion_type' = "keys"
    /\ fuzzy_completer' = NoCompleter
    /\ UNCHANGED ranked

\* main(file_path): searcher = FuzzyJSONSearcher(file_path), outside any try.
Start(f) ==
    /\ pc = "start"
    /\ LET r == Construct(f)
       IN  IF r.raised
           THEN Ended("crashed")
           ELSE /\ pc' = "prompt"
                /\ searcher' = r.self
                /\ unfiltered' = Derived(r.self)
                /\ UNCHANGED <<current_completion_type, fuzzy_completer, ranked>>
    /\ last' = Last("start", f, FALSE, <<>>, <<>>, <<>>)

\* /load <path>: a new FuzzyJSONSearcher when the path exists; its
\* AttributeError is not among the exceptions the loop catches.
Load(f) ==
    /\ pc = "prompt"
    /\ IF f.exists
       THEN LET r == Construct(f)
            IN  IF r.raised
                THEN Ended("crashed")
                ELSE /\ pc' = "prompt"
                     /\ searcher' = r.self
                     /\ unfiltered' = Derived(r.self)
                     /\ UNCHANGED <<current_completion_type, fuzzy_completer,
                                    ranked>>
       ELSE UNCHANGED <<pc, searcher, unfiltered, current_completion_type,
                        fuzzy_completer, ranked>>
    /\ last' = Last("load", f, FALSE, <<>>, <<>>, <<>>)

\* /only ...: set or clear the filter, then _apply_key_filter.
Only(query) ==
    /\ pc = "prompt"
    /\ searcher' = _apply_key_filter(
                      [searcher EXCEPT !._allowed_keys_filter = OnlyFilter(query)])
    /\ last' = Last("only", NoFile,
                    searcher._allowed_keys_filter # <<>>
                       /\ Derived(searcher) # unfiltered,
                    <<>>, <<>>, <<>>)
    /\ UNCHANGED <<pc, current_completion_type, unfiltered, fuzzy_completer,
                   ranked>>

\* A Ctrl+V that leaves the completer's completion_type as it was.
ToggleCompletionType_leaves_completer ==
    /\ pc = "prompt"
    /\ current_completion_type' =
          IF current_completion_type = "keys" THEN "values" ELSE "keys"
    /\ last' = Last("other", NoFile, FALSE, <<>>, <<>>, <<>>)
    /\ UNCHANGED <<pc, searcher, unfiltered, fuzzy_completer, ranked>>

\* Ctrl+V: keys <-> values, for the searches and for the completer.
ToggleCompletionType ==
    /\ pc = "prompt"
    /\ current_completion_type' =
          IF current_completion_type = "keys" THEN "values" ELSE "keys"
    /\ fuzzy_completer' =
          [fuzzy_completer EXCEPT !.completion_type = current_completion_type']
    /\ last' = Last("other", NoFile, FALSE, <<>>, <<>>, <<>>)
    /\ UNCHANGED <<pc, searcher, unfiltered, ranked>>

\* The candidates of a search in the current mode (fuzzy_search, lines 206-209).
Candidates ==
    IF current_completion_type = "keys"
    THEN searcher.unique_keys
    ELSE searcher.unique_values

\* value_to_keys_map.get(m, [])
KeysOfValue(self, m) ==
    IF m \in DOMAIN self.value_to_keys_map THEN self.value_to_keys_map[m] ELSE <<>>

\* A search whose ranked matches include the candidate m: display_matches
\* resolves m against the document (keys) or looks it up in the map (values).
Search(m) ==
    /\ pc = "prompt"
    /\ m \in ToSet(Candidates)
    /\ last' = IF current_completion_type = "keys"
               THEN Last("search", NoFile, FALSE, m,
                         _get_values_by_path(searcher.data, m), <<>>)
               ELSE Last("search", NoFile, FALSE, m, <<>>, KeysOfValue(searcher, m))
    /\ UNCHANGED <<pc, searcher, current_completion_type, unfiltered,
                   fuzzy_completer, ranked>>

\* /load with no path, or an unknown / command: a message, nothing else.
NoOpCommand ==
    /\ pc = "prompt"
    /\ last' = Last("other", NoFile, FALSE, <<>>, <<>>, <<>>)
    /\ UNCHANGED <<pc, searcher, current_completion_type, unfiltered,
                   fuzzy_completer, ranked>>

\* /exit, Ctrl+C or end of input.
Exit ==
    /\ pc = "prompt"
    /\ Ended("exited")
    /\ last' = Last("exit", NoFile, FALSE, <<>>, <<>>, <<>>)

Next ==
    \/ \E f \in Files : Start(f)
    \/ \E f \in Files : Load(f)
    \/ \E q \in OnlyQueries : Only(q)
    \/ ToggleCompletionType
    \/ \E m \in ToSet(Candidates) : Search(m)
    \/ NoOpCommand
    \/ Exit

Spec == Init /\ [][Next]_vars

----------------------------------------------------------------------------
(* Searching and completing: rapidfuzz's process.extract ranks the         *)
(* candidates by the score fuzz.WRatio gives them.  The scorer belongs to  *)
(* the library; its scores are an input here.                              *)

\* fuzzy_search(self, query, limit: int = 10, ...)
search_limit == 10

\* process.extract(text, candidates, ..., limit=5, ...) in get_completions
completion_limit == 5

\* score_cutoff=60, in fuzzy_search and in get_completions
score_cutoff == 60

\* Scores fuzz.WRatio can give: none, just below the cutoff, the cutoff,
\* the maximum.
ScoreValues == {0, 59, 60, 100}

\* The score patterns of period at most n.
ScorePatterns(n) == UNION {[1..k -> ScoreValues] : k \in 1..n}

\* The score of each choice, by its position, under a pattern.
Scored(pattern, choices) ==
    [i \in DOMAIN choices |-> pattern[((i - 1) % Len(pattern)) + 1]]

RECURSIVE Largest(_, _, _)
\* The positions among `among` of the `limit` highest scores, highest first,
\* equal scores by position.
Largest(scores, among, limit) ==
    IF among = {} \/ limit = 0 THEN <<>>
    ELSE LET best == CHOOSE i \in among :
                        \A j \in among :
                           \/ scores[i] > scores[j]
                           \/ scores[i] = scores[j] /\ i <= j
         IN  <<best>> \o Largest(scores, among \ {best}, limit - 1)

\* process.extract(query, choices, scorer=fuzz.WRatio, limit, score_cutoff),
\* scores being the scorer's score of each choice: (choice, score, index)
\* of the choices that reach the cutoff, best first, at most limit.
extract(scores, choices, limit, cutoff) ==
    LET kept == {i \in DOMAIN choices : scores[i] >= cutoff}
        order == Largest(scores, kept, limit)
    IN  [k \in DOMAIN order |->
            <<choices[order[k]], scores[order[k]], order[k]>>]

\* cleaned = [(m[0], m[1]) for m in matches]
Cleaned(matches) == [k \in DOMAIN matches |-> <<matches[k][1], matches[k][2]>>]

\* searcher.fuzzy_search(query, limit, search_type), scores being the
\* scorer's scores of the query against the candidates in their order.
fuzzy_search(self, scores, limit, search_type) ==
    LET candidates == IF search_type = "keys"
                      THEN self.unique_keys
                      ELSE self.unique_values
    IN  Cleaned(extract(scores, candidates, limit, score_cutoff))

\* The candidates of the completer.
CompleterCandidates(self, completer) ==
    IF completer.completion_type = "keys"
    THEN self.unique_keys
    ELSE self.unique_values

\* FuzzyCompleter.get_completions: nothing for an empty text.
get_completions(self, completer, text, scores) ==
    IF text # <<>>
    THEN Cleaned(extract(scores, CompleterCandidates(self, completer),
                         completion_limit, score_cutoff))
    ELSE <<>>

\* The lines a user types that are not commands: nothing, or some text.
Queries == {<<>>, <<"a">>, <<"n", "a", "m">>}

\* A line that is not a command: an empty one is skipped, another one is
\* searched in the current mode and its matches are displayed.
FuzzySearch(query, pattern) ==
    /\ pc = "prompt"
    /\ IF query = <<>>
       THEN ranked' = Ranked("search", query, <<>>, <<>>)
       ELSE /\ query[1] # "/"
            /\ LET scores == Scored(pattern, Candidates)
               IN  ranked' = Ranked("search", query, scores,
                                    fuzzy_search(searcher, scores, search_limit,
                                                 current_completion_type))
    /\ pc' = "displayed"
    /\ last' = Last("other", NoFile, FALSE, <<>>, <<>>, <<>>)
    /\ UNCHANGED <<searcher, current_completion_type, unfiltered, fuzzy_completer>>

\* The prompt asks the DynamicCompleter for completions of the text typed
\* so far; a text that starts with / goes to the CommandCompleter.
Complete(text, pattern) ==
    /\ pc = "prompt"
    /\ IF text = <<>> THEN TRUE ELSE text[1] # "/"
    /\ LET scores == IF text = <<>> THEN <<>>
                     ELSE Scored(pattern,
                                 CompleterCandidates(searcher, fuzzy_completer))
       IN  ranked' = Ranked("completion", text, scores,
                            get_completions(searcher, fuzzy_completer, text, scores))
    /\ pc' = "completed"
    /\ last' = Last("other", NoFile, FALSE, <<>>, <<>>, <<>>)
    /\ UNCHANGED <<searcher, current_completion_type, unfiltered, fuzzy_completer>>

\* Back at the prompt, for the next line.
Prompt ==
    /\ pc \in {"displayed", "completed"}
    /\ pc' = "prompt"
    /\ ranked' = NoRanked
    /\ UNCHANGED <<searcher, current_completion_type, unfiltered, fuzzy_completer,
                   last>>

RankNext ==
    \/ \E f \in Files : Start(f)
    \/ \E f \in Files : Load(f)
    \/ \E q \in OnlyQueries : Only(q)
    \/ ToggleCompletionType
    \/ \E q \in Queries, p \in ScorePatterns(MaxPeriod) : FuzzySearch(q, p)
    \/ \E t \in Queries, p \in ScorePatterns(MaxPeriod) : Complete(t, p)
    \/ Prompt
    \/ NoOpCommand
    \/ Exit

\* The session with what its searches and completions return.
RankSpec == Init /\ [][RankNext]_vars

----------------------------------------------------------------------------
(* Properties.                                                             *)

KeyUniverse == ToSet(searcher.unique_keys)
ValueUniverse == ToSet(searcher.unique_values)
ReverseIndex == searcher.value_to_keys_map

\* A document that is empty, missing, unparsable or of an unsupported type.
UnloadableFile(f) ==
    \/ ~f.exists
    \/ ~f.parses
    \/ f.ext \notin {"json", "csv"}
    \/ f.content \in {Map(<<>>, <<>>), List(<<>>)}

\* C1: loading an empty, missing, unparsable or unsupported document, at
\* session start or by /load, does not raise: the session is at its prompt
\* afterwards, with KeyUniverse, ValueUniverse and ReverseIndex empty.
C1_UnloadableDocumentLeavesEmptySession ==
    (last.cmd \in {"start", "load"} /\ UnloadableFile(last.file))
        => /\ pc = "prompt"
           /\ KeyUniverse = {}
           /\ ValueUniverse = {}
           /\ DOMAIN ReverseIndex = {}

\* C2: a /load keeps the search mode and the active filter: right after a
\* load done while filter P is active, the caches are the derivations of the
\* new document under P.
C2_LoadKeepsModeAndFilter ==
    [][ (last'.cmd = "load" /\ last'.file.exists /\ pc' = "prompt")
          => /\ current_completion_type' = current_completion_type
             /\ Derived(searcher') =
                  Derived(_apply_key_filter(
                     [Construct(last'.file).self EXCEPT
                        !._allowed_keys_filter = searcher._allowed_keys_filter]))
      ]_vars

\* C3: an /only that sets the non-empty filter already in force leaves
\* KeyUniverse, ValueUniverse and ReverseIndex as they are, and an /only that
\* clears the filter restores the ones the document was loaded with.
C3_FilterIdempotentAndClearRestores ==
    [][ last'.cmd = "only"
          => /\ ( /\ searcher'._allowed_keys_filter # <<>>
                  /\ searcher'._allowed_keys_filter = searcher._allowed_keys_filter )
                => Derived(searcher') = Derived(searcher)
             /\ searcher'._allowed_keys_filter = <<>>
                => Derived(searcher') = unfiltered'
      ]_vars

\* C3 witness: a filter that had narrowed the caches has just been cleared.
C3_Witness ==
    /\ last.cmd = "only"
    /\ last.was_narrowed
    /\ searcher._allowed_keys_filter = <<>>
    /\ KeyUniverse # {}
    /\ DOMAIN ReverseIndex # {}

\* C4: every key path of the KeyUniverse resolves to a non-empty sequence.
C4_EveryKeyPathResolves ==
    (last.cmd = "search" /\ current_completion_type = "keys")
        => last.values # <<>>

\* C5: every key path listed in ReverseIndex[s] resolves to values one of
\* which is a scalar whose string form is s.
C5_ReverseIndexResolvesToScalar ==
    (last.cmd = "search" /\ current_completion_type = "values")
        => \A i \in DOMAIN last.keys :
              LET values == _get_values_by_path(searcher.data, last.keys[i])
              IN  \E j \in DOMAIN values :
                     /\ ~IsContainer(values[j])
                     /\ Str(values[j]) = last.match

\* p occurs in k: k is some prefix, then p, then some suffix.
Occurs(p, k) ==
    \E i \in 0 .. Len(k) : \E j \in i .. Len(k) : SubSeq(k, i + 1, j) = p

\* The key paths of the loaded document that contain a pattern of the filter.
SurvivingKeys ==
    {k \in ToSet(unfiltered.unique_keys) :
        \E i \in DOMAIN searcher._allowed_keys_filter :
            Occurs(searcher._allowed_keys_filter[i], k)}

\* C6: under a non-empty filter, KeyUniverse is the key paths of the document
\* that contain a pattern, ReverseIndex[s] is the unfiltered entry of s cut
\* down to KeyUniverse, and s is in ReverseIndex and in ValueUniverse exactly
\* when that is not empty.
C6_FilteredDerivations ==
    (pc = "prompt" /\ searcher._allowed_keys_filter # <<>>)
        => /\ searcher.unique_keys = Sorted(SurvivingKeys)
           /\ \A s \in DOMAIN unfiltered.value_to_keys_map :
                 LET cut == ToSet(unfiltered.value_to_keys_map[s]) \cap KeyUniverse
                 IN  /\ s \in DOMAIN ReverseIndex <=> cut # {}
                     /\ s \in ValueUniverse <=> cut # {}
                     /\ cut # {} => ReverseIndex[s] = Sorted(cut)
           /\ DOMAIN ReverseIndex \subseteq DOMAIN unfiltered.value_to_keys_map
           /\ ValueUniverse \subseteq DOMAIN unfiltered.value_to_keys_map

\* C6 witness: a filter that keeps some keys and drops others, a pattern
\* matching inside a key path, and a scalar dropped with its keys.
C6_Witness ==
    /\ pc = "prompt"
    /\ searcher._allowed_keys_filter # <<>>
    /\ KeyUniverse # {}
    /\ KeyUniverse # ToSet(unfiltered.unique_keys)
    /\ \E k \in KeyUniverse :
          \A i \in DOMAIN searcher._allowed_keys_filter :
             SubSeq(k, 1, Len(searcher._allowed_keys_filter[i]))
                # searcher._allowed_keys_filter[i]
    /\ DOMAIN ReverseIndex # {}
    /\ DOMAIN ReverseIndex # DOMAIN unfiltered.value_to_keys_map

\* C7: every key path in a ReverseIndex entry is in the KeyUniverse.
C7_ReverseIndexWithinKeyUniverse ==
    \A s \in DOMAIN ReverseIndex : ToSet(ReverseIndex[s]) \subseteq KeyUniverse

\* C7 witness: a filter is active that removed a key path from the entry of a
\* scalar that is still indexed.
C7_Witness ==
    /\ pc = "prompt"
    /\ searcher._allowed_keys_filter # <<>>
    /\ \E s \in DOMAIN ReverseIndex :
          /\ ReverseIndex[s] # <<>>
          /\ ReverseIndex[s] # unfiltered.value_to_keys_map[s]

RECURSIVE Resolve(_, _)
\* resolve as section 4.5 states it: a sequence met before the next segment
\* is consumed is mapped over with the same remaining segments.
Resolve(node, segments) ==
    IF IsList(node)
    THEN Flat([i \in DOMAIN node.items |-> Resolve(node.items[i], segments)])
    ELSE IF segments = <<>> THEN <<node>>
    ELSE IF IsDict(node) /\ Head(segments) \in ToSet(node.keys)
    THEN Resolve(Lookup(node, Head(segments)), Tail(segments))
    ELSE <<>>

\* C8: resolving a key path maps over every sequence met on the way, at the
\* root or at any depth, and concatenates; user.tags of the scenario
\* document resolves to the two elements admin and vip.
C8_ResolveMapsOverSequences ==
    (last.cmd = "search" /\ current_completion_type = "keys")
        => /\ last.values = Resolve(searcher.data, Split(last.match, "."))
           /\ (searcher.data = ScenarioDoc /\ last.match = s_user_tags)
                => last.values = <<StrV(s_admin), StrV(s_vip)>>

RECURSIVE ScalarLeaves(_)
\* The scalars of a document that are a value of a map or an element of a
\* sequence, at any depth.
ScalarLeaves(d) ==
    IF IsContainer(d)
    THEN UNION {IF IsContainer(d.items[i]) THEN ScalarLeaves(d.items[i])
                ELSE {d.items[i]} : i \in DOMAIN d.items}
    ELSE {}

\* C9: the flattened values of a JSON document are the string forms of all
\* its scalar leaves, map values and sequence elements alike, and they are
\* the scalars the reverse index records.
C9_ValuesAreAllScalarLeaves ==
    (pc = "prompt" /\ searcher.ext = "json")
        => /\ ToSet(searcher._all_values)
                = {Str(x) : x \in ScalarLeaves(searcher.data)}
           /\ ToSet(searcher._all_values) = DOMAIN unfiltered.value_to_keys_map

\* The field values of the CSV records under the surviving field names.
SurvivingFieldValues ==
    {Str(Lookup(searcher.data.items[r], k)) :
        r \in DOMAIN searcher.data.items, k \in KeyUniverse}

\* C10: for a CSV document, filtered or not, the ValueUniverse is the set of
\* the records' field values under the surviving field names, which is the
\* set of scalars that have a ReverseIndex entry.
C10_CsvValueUniverse ==
    (pc = "prompt" /\ searcher.ext = "csv")
        => /\ ValueUniverse = SurvivingFieldValues
           /\ ValueUniverse = DOMAIN ReverseIndex

\* The position of a candidate in a sorted list without duplicates.
Position(candidates, m) == CHOOSE i \in DOMAIN candidates : candidates[i] = m

\* The universe of the current mode, in candidate order.
ModeUniverse ==
    IF current_completion_type = "keys"
    THEN searcher.unique_keys
    ELSE searcher.unique_values

\* C11: a search and an inline completion return only members of the
\* current mode's universe (KeyUniverse in key mode, ValueUniverse in value
\* mode), each with the score the scorer gave it and that score at least 60,
\* at most 10 of them for a search and 5 for a completion, by descending
\* score and, for equal scores, in candidate order; an empty query or an
\* empty universe returns nothing.
C11_RankedWithinUniverse ==
    ranked.by \in {"search", "completion"} =>
        LET R == ranked.matches
            U == ModeUniverse
        IN  /\ \A k \in DOMAIN R :
                  /\ R[k][1] \in (IF current_completion_type = "keys"
                                  THEN KeyUniverse ELSE ValueUniverse)
                  /\ R[k][2] = ranked.scores[Position(U, R[k][1])]
                  /\ R[k][2] >= 60
            /\ Len(R) <= (IF ranked.by = "search" THEN 10 ELSE 5)
            /\ \A k \in DOMAIN R : \A l \in DOMAIN R :
                  k < l => \/ R[k][2] > R[l][2]
                           \/ /\ R[k][2] = R[l][2]
                              /\ Position(U, R[k][1]) < Position(U, R[l][1])
            /\ (ranked.query = <<>> \/ U = <<>>) => R = <<>>

\* A search in value mode that returns 10 of more than 10 candidates that
\* reach 60, with equal and with different scores among them.
C11_Witness ==
    /\ ranked.by = "search"
    /\ current_completion_type = "values"
    /\ Len(ranked.matches) = 10
    /\ Cardinality({i \in DOMAIN ranked.scores : ranked.scores[i] >= 60}) > 10
    /\ \E k \in DOMAIN ranked.matches : \E l \in DOMAIN ranked.matches :
          k < l /\ ranked.matches[k][2] = ranked.matches[l][2]
    /\ \E k \in DOMAIN ranked.matches : \E l \in DOMAIN ranked.matches :
          ranked.matches[k][2] > ranked.matches[l][2]

====
